---- MODULE Spec2Model ----
(***************************************************************************)
(* A model of dumptruck.py: discovery of the list-/describe- operations of *)
(* the aws command line tool from its help texts, and the capture of each  *)
(* operation's output in three formats under an output directory.          *)
(*                                                                         *)
(* Python strings are sequences of one-character strings, so that split,   *)
(* strip, startswith, slicing and os.path.join are computed as the code    *)
(* computes them.  A child process's standard output is kept as the        *)
(* sequence of its lines.                                                  *)
(***************************************************************************)
EXTENDS Integers, Sequences, FiniteSets, TLC

VARIABLES
    pc,             \* position of main / of the driver of the specification
    run_cache,      \* lru_cache of run: <<args, timeout keyword>> -> result
    shd_cache,      \* lru_cache of service_help_doc: name -> lines
    vsc_cache,      \* lru_cache of valid_service_command: name -> BOOLEAN
    mkdir_cache,    \* lru_cache of mkdir: the path strings that returned
    mkdir_p_cache,  \* lru_cache of mkdir_p: the path strings that returned
    fs,             \* the filesystem: [dirs, files]
    fs0,            \* the filesystem when the process started
    cwd,            \* the working directory of the process (segments)
    tool,           \* which external tool is installed: "any" or "fake"
    output_dir,     \* main's output_dir argument
    err,            \* the exception that escaped the last call ("none")
    spawns,         \* <<args, timeout keyword>> -> child processes spawned by such calls
    faults,         \* failing child processes so far (bounded by MaxFaults)
    svcs,           \* list_aws_services: the candidates of the root help
    si,             \* list_aws_services: index of the current candidate
    subs,           \* list_service_commands: the candidates of the service
    ci,             \* list_service_commands: index of the current candidate
    fi,             \* main: index of the current format
    yielded,        \* the pairs list_valid_dump_commands has yielded
    captured,       \* the calls of capture_service_dump main has made
    last,           \* what the last step did (a record)
    ncalls,         \* calls made by the API driver (bounded by MaxCalls)
    scan_in,        \* the scanner's input: [lines, marker]
    scan_out        \* the scanner's examined candidates

vars == <<pc, run_cache, shd_cache, vsc_cache, mkdir_cache, mkdir_p_cache, fs, fs0,
          cwd, tool, output_dir, err, spawns, faults, svcs, si, subs, ci, fi,
          yielded, captured, last, ncalls, scan_in, scan_out>>

-----------------------------------------------------------------------------
(* Bounds *)

\* failing child processes (timeout or non-zero exit) in one run
MaxFaults == 1
\* calls made by the API driver
MaxCalls == 3
\* lines of a help text given to the scanner
MaxLines == 4

-----------------------------------------------------------------------------
(* Program constants *)

\* @lru_cache(4096)
lru_maxsize == 4096

\* settings.timeout
settings_timeout == 300

\* os.path.sep
sep == "/"

\* string.printable (the grave accent and the vertical tab are written as names)
string_printable ==
    {"0","1","2","3","4","5","6","7","8","9",
     "a","b","c","d","e","f","g","h","i","j","k","l","m",
     "n","o","p","q","r","s","t","u","v","w","x","y","z",
     "A","B","C","D","E","F","G","H","I","J","K","L","M",
     "N","O","P","Q","R","S","T","U","V","W","X","Y","Z",
     "!","\"","#","$","%","&","'","(",")","*","+",",","-",".","/",
     ":",";","<","=",">","?","@","[","\\","]","^","_","GRAVE","{","|","}","~",
     " ","\t","\n","\r","\f","VT"}

\* the characters str.strip() removes, among those only_printables keeps
str_whitespace == {" ", "\t", "\n", "\r", "\f", "VT"}

s_aws == <<"a","w","s">>
s_help == <<"h","e","l","p">>
s_output == <<"-","-","o","u","t","p","u","t">>
s_text == <<"t","e","x","t">>
s_log == <<"l","o","g">>
s_table == <<"t","a","b","l","e">>
s_txt == <<"t","x","t">>
s_json == <<"j","s","o","n">>
s_bullet == <<"+","o"," ">>
s_list == <<"l","i","s","t","-">>
s_describe == <<"d","e","s","c","r","i","b","e","-">>
s_SERVICES == <<"S","S","E","E","R","R","V","V","I","I","C","C","E","E","S","S">>
s_COMMANDS == <<"C","C","O","O","M","M","M","M","A","A","N","N","D","D","S","S">>

\* settings.formats, in the insertion order of the dict
settings_formats == << <<s_text, s_log>>, <<s_table, s_txt>>, <<s_json, s_json>> >>

-----------------------------------------------------------------------------
(* Python string operations *)

\* v bound to a name in the body F: a local variable of the code
Bind(v, F(_)) == F(v)

SetMin(S) == CHOOSE x \in S : \A y \in S : x <= y
SetMax(S) == CHOOSE x \in S : \A y \in S : x >= y

\* s.startswith(p)
startswith(s, p) == Len(s) >= Len(p) /\ SubSeq(s, 1, Len(p)) = p

\* sub in s
contains(s, sub) ==
    \E i \in 1..(Len(s) - Len(sub) + 1) : SubSeq(s, i, i + Len(sub) - 1) = sub

\* s[n:]
slice_from(s, n) == SubSeq(s, n + 1, Len(s))

\* s.strip(chars)
strip(s, chars) ==
    LET keep == {i \in 1..Len(s) : s[i] \notin chars}
    IN  IF keep = {} THEN <<>> ELSE SubSeq(s, SetMin(keep), SetMax(keep))

RECURSIVE split(_, _)
\* s.split(c) for a one-character separator: empty pieces are kept
split(s, c) ==
    LET at == {i \in 1..Len(s) : s[i] = c}
    IN  IF at = {} THEN <<s>>
        ELSE <<SubSeq(s, 1, SetMin(at) - 1)>> \o split(slice_from(s, SetMin(at)), c)

\* posixpath.join(a, b)
os_path_join(a, b) ==
    IF b # <<>> /\ b[1] = sep THEN b
    ELSE IF a = <<>> \/ a[Len(a)] = sep THEN a \o b
    ELSE a \o <<sep>> \o b

RECURSIVE accumulate_join(_, _)
\* list(itertools.accumulate(segs, os.path.join))[1:], given the first as acc
accumulate_join(acc, segs) ==
    IF segs = <<>> THEN <<>>
    ELSE LET nxt == os_path_join(acc, Head(segs))
         IN  <<nxt>> \o accumulate_join(nxt, Tail(segs))

\* list(itertools.accumulate(segs, os.path.join))
accumulate(segs) ==
    IF segs = <<>> THEN <<>> ELSE <<Head(segs)>> \o accumulate_join(Head(segs), Tail(segs))

-----------------------------------------------------------------------------
(* The filesystem: fs.dirs is the set of directories, fs.files maps each   *)
(* regular file to its content; both are keyed by absolute, normalised     *)
(* paths (sequences of segments, <<>> being the root).                     *)

RECURSIVE norm(_, _)
\* the kernel's walk over the segments of a path, from a base directory
norm(base, segs) ==
    IF segs = <<>> THEN base
    ELSE LET h == Head(segs)
             b == IF h = <<>> \/ h = <<".">> THEN base
                  ELSE IF h = <<".", ".">>
                       THEN (IF base = <<>> THEN base ELSE SubSeq(base, 1, Len(base) - 1))
                       ELSE Append(base, h)
         IN  norm(b, Tail(segs))

\* the file a path string names: relative paths start at the working directory
resolve(path) ==
    norm(IF startswith(path, <<sep>>) THEN <<>> ELSE cwd, split(path, sep))

parent(r) == IF r = <<>> THEN <<>> ELSE SubSeq(r, 1, Len(r) - 1)

\* os.path.isdir(path)
os_path_isdir(path, f) == path # <<>> /\ resolve(path) \in f.dirs

\* os.path.exists(path)
os_path_exists(path, f) ==
    path # <<>> /\ (resolve(path) \in f.dirs \/ resolve(path) \in DOMAIN f.files)

\* os.mkdir(path): the exception it raises, "none" when it creates the directory
os_mkdir_error(path, f) ==
    IF path = <<>> THEN "FileNotFoundError"
    ELSE IF os_path_exists(path, f) THEN "FileExistsError"
    ELSE IF parent(resolve(path)) \in DOMAIN f.files THEN "NotADirectoryError"
    ELSE IF parent(resolve(path)) \notin f.dirs THEN "FileNotFoundError"
    ELSE "none"

\* open(path, 'wb'): the exception it raises, "none" when the file is opened
open_wb_error(path, f) ==
    IF path = <<>> THEN "FileNotFoundError"
    ELSE IF resolve(path) \in f.dirs THEN "IsADirectoryError"
    ELSE IF parent(resolve(path)) \in DOMAIN f.files THEN "NotADirectoryError"
    ELSE IF parent(resolve(path)) \notin f.dirs THEN "FileNotFoundError"
    ELSE "none"

\* with open(path, 'wb') as f: f.write(content)
write_file(path, content, f) ==
    [f EXCEPT !.files = (resolve(path) :> content) @@ f.files]

-----------------------------------------------------------------------------
(* The program state the functions read and write, threaded through the    *)
(* operators below as one record; ret is the value a call returns, err the *)
(* exception that escapes it, spawned the child processes it started.      *)

State ==
    [run_cache |-> run_cache, shd_cache |-> shd_cache, vsc_cache |-> vsc_cache,
     mkdir_cache |-> mkdir_cache, mkdir_p_cache |-> mkdir_p_cache, fs |-> fs,
     spawns |-> spawns, faults |-> faults,
     err |-> "none", ret |-> "None", spawned |-> <<>>]

Commit(st) ==
    /\ run_cache' = st.run_cache
    /\ shd_cache' = st.shd_cache
    /\ vsc_cache' = st.vsc_cache
    /\ mkdir_cache' = st.mkdir_cache
    /\ mkdir_p_cache' = st.mkdir_p_cache
    /\ fs' = st.fs
    /\ spawns' = st.spawns
    /\ faults' = st.faults
    /\ err' = st.err

\* run called without the timeout keyword, and with timeout=t
NoKw == <<>>
Kw(t) == <<t>>

\* a child process that fails: it times out or exits with a non-zero status
IsFault(outcome) == outcome.kind = "timeout" \/ outcome.returncode # 0

\* subprocess.run(args, capture_output=True, timeout=timeout) with the given outcome
subprocess_run(args, kw, st, outcome) ==
    LET sp == [st EXCEPT
                 !.spawns = (<<args, kw>> :> (IF <<args, kw>> \in DOMAIN @
                                              THEN @[<<args, kw>>] ELSE 0) + 1) @@ @,
                 !.spawned = Append(@, args),
                 !.faults = IF IsFault(outcome) THEN @ + 1 ELSE @]
    IN  IF outcome.kind = "timeout"
        THEN [sp EXCEPT !.err = "TimeoutExpired"]
        ELSE [sp EXCEPT !.ret = [returncode |-> outcome.returncode,
                                 stdout |-> outcome.stdout]]

\* @lru_cache(4096) def run(*args, timeout=settings.timeout): the key holds the
\* positional arguments and the keyword as passed; an exception is not cached
run(args, kw, st, outcome) ==
    IF <<args, kw>> \in DOMAIN st.run_cache
    THEN [st EXCEPT !.ret = st.run_cache[<<args, kw>>]]
    ELSE Bind(subprocess_run(args, kw, st, outcome),
              LAMBDA r : IF r.err # "none" THEN r
                         ELSE [r EXCEPT !.run_cache = (<<args, kw>> :> r.ret) @@ @])

\* working_command without the comparison of the exit status
working_command_any(args, st, outcome) ==
    Bind(run(args, NoKw, st, outcome),
         LAMBDA r : IF r.err # "none" THEN r ELSE [r EXCEPT !.ret = TRUE])

\* def working_command(*args)
working_command(args, st, outcome) ==
    Bind(run(args, NoKw, st, outcome),
         LAMBDA r : IF r.err # "none" THEN r
                    ELSE [r EXCEPT !.ret = (r.ret.returncode = 0)])

-----------------------------------------------------------------------------
(* Directories *)

\* @lru_cache(4096) def mkdir(path)
mkdir(path, st) ==
    IF path \in st.mkdir_cache THEN st
    ELSE IF strip(path, str_whitespace) = <<>> THEN [st EXCEPT !.err = "AssertionError"]
    ELSE IF os_path_exists(path, st.fs)
         THEN IF os_path_isdir(path, st.fs)
              THEN [st EXCEPT !.mkdir_cache = @ \cup {path}]
              ELSE [st EXCEPT !.err = "AssertionError"]
    ELSE IF os_mkdir_error(path, st.fs) # "none"
         THEN [st EXCEPT !.err = os_mkdir_error(path, st.fs)]
    ELSE [st EXCEPT !.fs.dirs = @ \cup {resolve(path)},
                    !.mkdir_cache = @ \cup {path}]

RECURSIVE map_mkdir(_, _)
\* set(map(mkdir, paths)): the calls in order, up to the first that raises
map_mkdir(paths, st) ==
    IF paths = <<>> \/ st.err # "none" THEN st
    ELSE Bind(mkdir(Head(paths), st), LAMBDA r : map_mkdir(Tail(paths), r))

\* the prefixes mkdir_p makes: accumulate(path.strip(sep).split(sep), os.path.join)
mkdir_p_prefixes(path) == accumulate(split(strip(path, {sep}), sep))

\* os.mkdir(path) with no look at what exists
mkdir_unguarded(path, st) ==
    IF os_mkdir_error(path, st.fs) # "none"
    THEN [st EXCEPT !.err = os_mkdir_error(path, st.fs)]
    ELSE [st EXCEPT !.fs.dirs = @ \cup {resolve(path)}]

RECURSIVE map_mkdir_unguarded(_, _)
map_mkdir_unguarded(paths, st) ==
    IF paths = <<>> \/ st.err # "none" THEN st
    ELSE Bind(mkdir_unguarded(Head(paths), st), LAMBDA r : map_mkdir_unguarded(Tail(paths), r))

\* mkdir_p without memoization, making every prefix with os.mkdir
mkdir_p_naive(path, st) ==
    IF strip(path, str_whitespace) = <<>> THEN [st EXCEPT !.err = "AssertionError"]
    ELSE map_mkdir_unguarded(mkdir_p_prefixes(path), st)

\* @lru_cache(4096) def mkdir_p(path)
mkdir_p(path, st) ==
    IF path \in st.mkdir_p_cache THEN st
    ELSE IF strip(path, str_whitespace) = <<>> THEN [st EXCEPT !.err = "AssertionError"]
    ELSE Bind(map_mkdir(mkdir_p_prefixes(path), st),
              LAMBDA r : IF r.err # "none" THEN r
                         ELSE [r EXCEPT !.mkdir_p_cache = @ \cup {path}])

-----------------------------------------------------------------------------
(* Capture *)

\* the artifact path without the extension
artifact_path_no_extension(service, subcommand, format, extension, outdir) ==
    os_path_join(os_path_join(os_path_join(outdir, format), service), subcommand)

\* the artifact path of capture_service_dump
artifact_path(service, subcommand, format, extension, outdir) ==
    os_path_join(os_path_join(os_path_join(outdir, format), service),
                 subcommand \o <<".">> \o extension)

\* the directory capture_service_dump materializes
artifact_dir(service, format, outdir) ==
    os_path_join(os_path_join(outdir, format), service)

\* capture_service_dump once mkdir_p has returned: the file is opened and written
write_artifact(path, content, made) ==
    IF made.err # "none" THEN made
    ELSE IF open_wb_error(path, made.fs) # "none"
         THEN [made EXCEPT !.err = open_wb_error(path, made.fs)]
    ELSE [made EXCEPT !.fs = write_file(path, content, made.fs), !.ret = "None"]

\* capture_service_dump without the test of the exit status
capture_service_dump_unchecked(service, subcommand, format, extension, outdir, st, outcome) ==
    Bind(run(<<s_aws, service, subcommand, s_output, format>>, NoKw, st, outcome),
         LAMBDA execution :
           IF execution.err = "TimeoutExpired"
           THEN [execution EXCEPT !.err = "none", !.ret = "None"]
           ELSE IF execution.err # "none" THEN execution
           ELSE write_artifact(artifact_path(service, subcommand, format, extension, outdir),
                               execution.ret.stdout,
                               mkdir_p(artifact_dir(service, format, outdir), execution)))

\* capture_service_dump materializing the directory before it tests the exit status
capture_service_dump_eager_mkdir(service, subcommand, format, extension, outdir, st, outcome) ==
    Bind(run(<<s_aws, service, subcommand, s_output, format>>, NoKw, st, outcome),
         LAMBDA execution :
           IF execution.err = "TimeoutExpired"
           THEN [execution EXCEPT !.err = "none", !.ret = "None"]
           ELSE IF execution.err # "none" THEN execution
           ELSE Bind(mkdir_p(artifact_dir(service, format, outdir), execution),
                     LAMBDA made :
                       IF execution.ret.returncode # 0 THEN [made EXCEPT !.ret = "None"]
                       ELSE write_artifact(
                              artifact_path(service, subcommand, format, extension, outdir),
                              execution.ret.stdout, made)))

\* def capture_service_dump(service, subcommand, format, extension, output_dir)
capture_service_dump(service, subcommand, format, extension, outdir, st, outcome) ==
    Bind(run(<<s_aws, service, subcommand, s_output, format>>, NoKw, st, outcome),
         LAMBDA execution :
           IF execution.err = "TimeoutExpired"
           THEN [execution EXCEPT !.err = "none", !.ret = "None"]
           ELSE IF execution.err # "none" THEN execution
           ELSE IF execution.ret.returncode # 0 THEN [execution EXCEPT !.ret = "None"]
           ELSE write_artifact(artifact_path(service, subcommand, format, extension, outdir),
                               execution.ret.stdout,
                               mkdir_p(artifact_dir(service, format, outdir), execution)))

-----------------------------------------------------------------------------
(* Sanitized lines and the help-text scan *)

\* def only_printables(s, whitelist=set(string.printable))
only_printables(s) == SelectSeq(s, LAMBDA c : c \in string_printable)

\* the pipeline of shell over the decoded, split lines of a child's output
sanitize(lines) ==
    SelectSeq([i \in 1..Len(lines) |-> strip(only_printables(lines[i]), str_whitespace)],
              LAMBDA l : l # <<>>)

\* def shell(cmd), consumed to its end
shell(cmd, st, outcome) ==
    IF strip(cmd, str_whitespace) = <<>> THEN [st EXCEPT !.err = "AssertionError"]
    ELSE Bind(run(split(cmd, " "), NoKw, st, outcome),
              LAMBDA r : IF r.err # "none" THEN r
                         ELSE [r EXCEPT !.ret = sanitize(r.ret.stdout)])

RECURSIVE skip_to_marker(_, _)
\* the first loop of the scan: the lines left after the first line holding the marker
skip_to_marker(lines, marker) ==
    IF lines = <<>> THEN <<>>
    ELSE IF contains(Head(lines), marker) THEN Tail(lines)
    ELSE skip_to_marker(Tail(lines), marker)

\* i.startswith('+o ') and len(i) >= 5
is_bullet(i) == startswith(i, s_bullet) /\ Len(i) >= 5

RECURSIVE collect_bullets_continue(_)
\* the second loop with continue in place of break
collect_bullets_continue(lines) ==
    IF lines = <<>> THEN <<>>
    ELSE IF is_bullet(Head(lines))
         THEN <<slice_from(Head(lines), 3)>> \o collect_bullets_continue(Tail(lines))
    ELSE collect_bullets_continue(Tail(lines))

RECURSIVE collect_bullets_reversed(_)
\* the second loop putting each item before the ones it has
collect_bullets_reversed(lines) ==
    IF lines = <<>> THEN <<>>
    ELSE IF is_bullet(Head(lines))
         THEN collect_bullets_reversed(Tail(lines)) \o <<slice_from(Head(lines), 3)>>
    ELSE <<>>

RECURSIVE collect_bullets(_)
\* the second loop of the scan: i[3:] of each line up to the first that is no bullet
collect_bullets(lines) ==
    IF lines = <<>> THEN <<>>
    ELSE IF is_bullet(Head(lines))
         THEN <<slice_from(Head(lines), 3)>> \o collect_bullets(Tail(lines))
    ELSE <<>>

\* the candidates the two loops examine
scan(lines, marker) == collect_bullets(skip_to_marker(lines, marker))

-----------------------------------------------------------------------------
(* Validation *)

\* f'aws {service_name} help'
help_cmd(service_name) == s_aws \o <<" ">> \o service_name \o <<" ">> \o s_help

\* @lru_cache(4096) def service_help_doc(service_name)
service_help_doc(service_name, st, outcome) ==
    IF service_name \in DOMAIN st.shd_cache
    THEN [st EXCEPT !.ret = st.shd_cache[service_name]]
    ELSE Bind(shell(help_cmd(service_name), st, outcome),
              LAMBDA r : IF r.err # "none" THEN r
                         ELSE [r EXCEPT !.shd_cache = (service_name :> r.ret) @@ @])

\* @lru_cache(4096) def valid_service_command(service_name)
valid_service_command(service_name, st, outcome) ==
    IF service_name \in DOMAIN st.vsc_cache
    THEN [st EXCEPT !.ret = st.vsc_cache[service_name]]
    ELSE Bind(service_help_doc(service_name, st, outcome),
              LAMBDA r : [r EXCEPT !.err = "none", !.ret = (r.err = "none"),
                                   !.vsc_cache = (service_name :> (r.err = "none")) @@ @])

\* subcommand.startswith('list-') or subcommand.startswith('describe-')
is_dump_subcommand(subcommand) ==
    startswith(subcommand, s_list) \/ startswith(subcommand, s_describe)

\* list_service_commands without its assertions
list_service_commands_begin_unasserted(service_name, st, outcome) ==
    Bind(service_help_doc(service_name, st, outcome),
         LAMBDA d : IF d.err # "none" THEN d
                    ELSE [d EXCEPT !.ret = scan(d.ret, s_COMMANDS)])

\* list_service_commands up to its second loop: the assertions and the scan
list_service_commands_begin(service_name, st, outcome) ==
    IF strip(service_name, str_whitespace) = <<>> THEN [st EXCEPT !.err = "AssertionError"]
    ELSE Bind(valid_service_command(service_name, st, outcome),
              LAMBDA v :
                IF ~v.ret THEN [v EXCEPT !.err = "AssertionError"]
                ELSE Bind(service_help_doc(service_name, v, outcome),
                          LAMBDA d : IF d.err # "none" THEN d
                                     ELSE [d EXCEPT !.ret = scan(d.ret, s_COMMANDS)]))

-----------------------------------------------------------------------------
(* The external tool and the environment: the inputs of the model *)

n_alpha == <<"a","l","p","h","a">>
n_beta == <<"b","e","t","a">>
n_list_items == <<"l","i","s","t","-","i","t","e","m","s">>
n_describe_it == <<"d","e","s","c","r","i","b","e","-","i","t">>
n_get_item == <<"g","e","t","-","i","t","e","m">>
d_dumptruck == <<".","/","d","u","m","p","t","r","u","c","k">>
d_tmp_x == <<"/","t","m","p","/","x">>
b_json == << <<"[","]">> >>
b_text == << <<"i","t","e","m","s">> >>
b_table == << <<"|","i","t","e","m","s","|">> >>
b_old == << <<"o","l","d">> >>

\* a bullet line as the sanitizer leaves it, and as groff prints it: indented,
\* the bullet an o struck over a +
bullet(name) == s_bullet \o name
raw_bullet(name) == <<" ", " ", "+", "BS", "o", " ">> \o name

RootTwo ==
    << <<" ", " ">> \o s_SERVICES, raw_bullet(n_alpha), <<>>, raw_bullet(n_beta), <<"x">> >>
RootOne == <<s_SERVICES, bullet(n_alpha)>>
RootNone == <<bullet(n_alpha)>>
\* a root help that lists alpha and, after it, alpha/
RootSlash == <<s_SERVICES, bullet(n_alpha), bullet(n_alpha \o <<sep>>)>>
RootDocs == {RootTwo, RootOne, RootNone, RootSlash}

\* a heading as the tool indents it with tabs, a tab between its two words
l_tabbed == <<"\t", "a", "\t", "b", " ">>
SvcTwo ==
    <<l_tabbed, s_COMMANDS, bullet(n_list_items), bullet(n_get_item), bullet(n_describe_it)>>
SvcOne == <<s_COMMANDS, bullet(n_list_items)>>
SvcDup == <<s_COMMANDS, bullet(n_list_items), bullet(n_list_items)>>
ServiceDocs == {SvcTwo, SvcOne, SvcDup}

\* what the tool may print on success, by the shape of its arguments
ToolStdout(args) ==
    IF args = <<s_aws, s_help>> THEN RootDocs
    ELSE IF Len(args) = 3 /\ args[3] = s_help THEN ServiceDocs
    ELSE IF args[Len(args)] = s_json THEN {b_json}
    ELSE IF args[Len(args)] = s_text THEN {b_text}
    ELSE IF args[Len(args)] = s_table THEN {b_table}
    ELSE {<<>>}

ExitZero(stdout) == [kind |-> "exit", returncode |-> 0, stdout |-> stdout]
ExitNonZero == [kind |-> "exit", returncode |-> 255, stdout |-> <<>>]
TimedOut == [kind |-> "timeout"]

\* the fake tool of the end-to-end scenario: its root help lists alpha, the help
\* of alpha lists list-items, and alpha list-items --output json prints [];
\* nothing else is stubbed to succeed, the discovery of the pair apart, which the
\* scenario leaves open
FakeOutcomes(args) ==
    IF args = <<s_aws, s_help>> THEN {ExitZero(RootOne)}
    ELSE IF args = <<s_aws, n_alpha, s_help>> THEN {ExitZero(SvcOne)}
    ELSE IF args = <<s_aws, n_alpha, n_list_items, s_output, s_json>> THEN {ExitZero(b_json)}
    ELSE IF args \in {<<s_aws, n_alpha, n_list_items, s_help>>, <<s_aws, n_alpha, n_list_items>>}
    THEN {ExitZero(<<>>), ExitNonZero, TimedOut}
    ELSE {ExitNonZero, TimedOut}

\* the outcomes of one child process
Outcomes(args) ==
    IF tool = "fake" THEN FakeOutcomes(args)
    ELSE {ExitZero(d) : d \in ToolStdout(args)} \cup {ExitNonZero, TimedOut}

\* the model bounds the failing child processes of any tool but the fake one
WithinFaults(st) == tool = "fake" \/ st.faults <= MaxFaults

Cwds == {<<>>, <<<<"h","o","m","e">>>>}
OutputDirs == {d_dumptruck, d_tmp_x}

Ancestors(r) == {SubSeq(r, 1, k) : k \in 0..Len(r)}
NoFiles == [x \in {} |-> x]

\* the filesystems a run may start from: nothing but the working directory; a
\* regular file where the output directory should be; an artifact of an earlier run
InitialFilesystems ==
    {[dirs |-> Ancestors(cwd), files |-> NoFiles],
     [dirs |-> Ancestors(cwd) \cup Ancestors(parent(resolve(output_dir))),
      files |-> (resolve(output_dir) :> b_old)],
     [dirs |-> Ancestors(cwd) \cup Ancestors(resolve(artifact_dir(n_alpha, s_json, output_dir))),
      files |-> (resolve(artifact_path(n_alpha, n_list_items, s_json, s_json, output_dir))
                   :> b_old)]}

\* how the invocation of a step ended: "timeout", "zero" or "nonzero" for a child
\* process or a cached result, "none" when the step made no call of run
OutcomeKind(key, st, outcome) ==
    IF st.spawned # <<>>
    THEN (IF outcome.kind = "timeout" THEN "timeout"
          ELSE IF outcome.returncode = 0 THEN "zero" ELSE "nonzero")
    ELSE IF key \in DOMAIN st.run_cache
    THEN (IF st.run_cache[key].returncode = 0 THEN "zero" ELSE "nonzero")
    ELSE "none"

\* what a step was: the operation, its arguments, the child processes it spawned,
\* how its invocation ended, and whether it repeats the step before it (the same
\* operation on the same arguments, which had returned without raising)
Did(op, arg, key, st, outcome) ==
    [op |-> op, arg |-> arg, spawned |-> st.spawned, kind |-> OutcomeKind(key, st, outcome),
     again |-> (last.op = op /\ last.arg = arg /\ err = "none")]

Idle(op) == [op |-> op, arg |-> <<>>, spawned |-> <<>>, kind |-> "none", again |-> FALSE]

InitCommon ==
    /\ run_cache = NoFiles /\ shd_cache = NoFiles /\ vsc_cache = NoFiles
    /\ mkdir_cache = {} /\ mkdir_p_cache = {}
    /\ cwd \in Cwds
    /\ tool \in {"any", "fake"}
    /\ output_dir \in IF tool = "fake" THEN {d_tmp_x} ELSE OutputDirs
    /\ fs \in IF tool = "fake" THEN {[dirs |-> Ancestors(cwd), files |-> NoFiles]}
               ELSE InitialFilesystems
    /\ fs0 = fs
    /\ err = "none"
    /\ spawns = NoFiles /\ faults = 0
    /\ svcs = <<>> /\ si = 0 /\ subs = <<>> /\ ci = 0 /\ fi = 0
    /\ yielded = <<>> /\ captured = <<>>
    /\ last = Idle("init")
    /\ ncalls = 0
    /\ scan_out = <<>>
    /\ scan_in = [lines |-> <<>>, marker |-> <<>>]

-----------------------------------------------------------------------------
(* main: one step per external invocation the generators make *)

Init ==
    /\ InitCommon
    /\ pc = "root"

loop == <<pc, svcs, si, subs, ci, fi, yielded>>
driver == <<cwd, tool, output_dir, fs0, ncalls, scan_in, scan_out>>

\* list_aws_services: shell('aws help') and the first loop
FetchRootHelp ==
    /\ pc = "root"
    /\ \E outcome \in Outcomes(<<s_aws, s_help>>) :
         \E st \in {shell(s_aws \o <<" ">> \o s_help, State, outcome)} :
             /\ WithinFaults(st)
             /\ Commit(st)
             /\ last' = Did("root", <<>>, <<<<s_aws, s_help>>, NoKw>>, st, outcome)
             /\ IF st.err # "none"
                THEN pc' = "crashed" /\ UNCHANGED <<svcs, si>>
                ELSE pc' = "service" /\ svcs' = scan(st.ret, s_SERVICES) /\ si' = 1
    /\ UNCHANGED <<subs, ci, fi, yielded, captured, driver>>

\* list_aws_services: the generator is exhausted, and main returns
Finish ==
    /\ pc = "service" /\ si > Len(svcs)
    /\ pc' = "done"
    /\ last' = Idle("finish")
    /\ UNCHANGED <<run_cache, shd_cache, vsc_cache, mkdir_cache, mkdir_p_cache, fs,
                   err, spawns, faults, svcs, si, subs, ci, fi, yielded, captured, driver>>

\* list_aws_services: the next candidate, and for a valid one the start of
\* list_service_commands
NextService ==
    /\ pc = "service" /\ si <= Len(svcs)
    /\ \E outcome \in Outcomes(split(help_cmd(svcs[si]), " ")) :
         \E v \in {valid_service_command(svcs[si], State, outcome)} :
         \E st \in {IF v.ret THEN list_service_commands_begin(svcs[si], v, outcome) ELSE v} :
             /\ WithinFaults(st)
             /\ Commit(st)
             /\ last' = Did("service", <<svcs[si]>>,
                            <<split(help_cmd(svcs[si]), " "), NoKw>>, st, outcome)
             /\ IF st.err # "none"
                THEN pc' = "crashed" /\ UNCHANGED <<si, subs, ci>>
                ELSE IF ~v.ret
                THEN pc' = "service" /\ si' = si + 1 /\ UNCHANGED <<subs, ci>>
                ELSE pc' = "sub" /\ subs' = st.ret /\ ci' = 1 /\ UNCHANGED si
    /\ UNCHANGED <<svcs, fi, yielded, captured, driver>>

\* list_service_commands: the generator is exhausted
EndService ==
    /\ pc = "sub" /\ ci > Len(subs)
    /\ pc' = "service" /\ si' = si + 1
    /\ last' = Idle("endservice")
    /\ UNCHANGED <<run_cache, shd_cache, vsc_cache, mkdir_cache, mkdir_p_cache, fs,
                   err, spawns, faults, svcs, subs, ci, fi, yielded, captured, driver>>

\* list_service_commands: the next candidate; a list-/describe- one whose help
\* can be fetched is yielded to list_valid_dump_commands
NextSubcommand ==
    /\ pc = "sub" /\ ci <= Len(subs)
    /\ \E outcome \in Outcomes(split(help_cmd(svcs[si] \o <<" ">> \o subs[ci]), " ")) :
         \E st \in {IF is_dump_subcommand(subs[ci])
                    THEN valid_service_command(svcs[si] \o <<" ">> \o subs[ci], State, outcome)
                    ELSE [State EXCEPT !.ret = FALSE]} :
             /\ WithinFaults(st)
             /\ Commit(st)
             /\ last' = Did("sub", <<svcs[si], subs[ci]>>,
                            <<split(help_cmd(svcs[si] \o <<" ">> \o subs[ci]), " "), NoKw>>,
                            st, outcome)
             /\ IF st.ret
                THEN pc' = "probe" /\ UNCHANGED ci
                ELSE pc' = "sub" /\ ci' = ci + 1
    /\ UNCHANGED <<svcs, si, subs, fi, yielded, captured, driver>>

\* list_valid_dump_commands: the probe of a pair, which is yielded to main
\* when the probe passes
Probe ==
    /\ pc = "probe"
    /\ \E outcome \in Outcomes(<<s_aws, svcs[si], subs[ci]>>) :
         \E st \in {working_command(<<s_aws, svcs[si], subs[ci]>>, State, outcome)} :
             /\ WithinFaults(st)
             /\ Commit(st)
             /\ last' = Did("probe", <<svcs[si], subs[ci]>>,
                            <<<<s_aws, svcs[si], subs[ci]>>, NoKw>>, st, outcome)
             /\ IF st.err # "none"
                THEN pc' = "crashed" /\ UNCHANGED <<ci, fi, yielded>>
                ELSE IF st.ret
                THEN /\ pc' = "capture" /\ fi' = 1
                     /\ yielded' = Append(yielded, <<svcs[si], subs[ci]>>)
                     /\ UNCHANGED ci
                ELSE pc' = "sub" /\ ci' = ci + 1 /\ UNCHANGED <<fi, yielded>>
    /\ UNCHANGED <<svcs, si, subs, captured, driver>>

\* main resuming the generator after the first format
formats_left_none(i) == FALSE

\* for format, extension in settings.formats.items(): formats remain after the i-th
formats_left(i) == i < Len(settings_formats)

\* main: capture_service_dump of the yielded pair in the next format
Capture ==
    /\ pc = "capture"
    /\ LET format == settings_formats[fi][1]
           extension == settings_formats[fi][2]
       IN  \E outcome \in Outcomes(<<s_aws, svcs[si], subs[ci], s_output, format>>) :
             \E st \in {capture_service_dump(svcs[si], subs[ci], format, extension,
                                               output_dir, State, outcome)} :
                 /\ WithinFaults(st)
                 /\ Commit(st)
                 /\ last' = Did("capture", <<svcs[si], subs[ci], format, extension, output_dir>>,
                                <<<<s_aws, svcs[si], subs[ci], s_output, format>>, NoKw>>,
                                st, outcome)
                 /\ captured' = Append(captured,
                                        [service |-> svcs[si], subcommand |-> subs[ci],
                                         format |-> format, extension |-> extension,
                                         kind |-> last'.kind, err |-> st.err])
                 /\ IF st.err # "none"
                    THEN pc' = "crashed" /\ UNCHANGED <<ci, fi>>
                    ELSE IF formats_left(fi)
                    THEN pc' = "capture" /\ fi' = fi + 1 /\ UNCHANGED ci
                    ELSE pc' = "sub" /\ ci' = ci + 1 /\ UNCHANGED fi
    /\ UNCHANGED <<svcs, si, subs, yielded, driver>>

Next ==
    \/ FetchRootHelp
    \/ NextService
    \/ NextSubcommand
    \/ Probe
    \/ Capture
    \/ EndService
    \/ Finish

Spec == Init /\ [][Next]_vars

-----------------------------------------------------------------------------
(* The functions called one by one, in any order, by a caller that catches   *)
(* what they raise                                                           *)

ApiArgs == {<<s_aws, n_alpha, n_list_items, s_output, s_json>>}
ApiKws == {NoKw, Kw(settings_timeout)}
s_blank == <<" ">>
s_tmp_x == <<"t","m","p","/","x">>
ApiPaths ==
    {artifact_dir(n_alpha, s_json, output_dir), d_tmp_x, s_tmp_x, s_blank, <<sep>>}

InitAPI ==
    /\ InitCommon
    /\ tool = "any"
    /\ pc = "api"

program == <<svcs, si, subs, ci, fi, yielded, captured, pc>>

\* run(*args) and run(*args, timeout=t)
CallRun ==
    /\ pc = "api" /\ ncalls < MaxCalls
    /\ \E args \in ApiArgs, kw \in ApiKws :
       \E outcome \in Outcomes(args) :
       \E st \in {run(args, kw, State, outcome)} :
           /\ WithinFaults(st)
           /\ Commit(st)
           /\ last' = Did("run", <<args, kw>>, <<args, kw>>, st, outcome)
    /\ ncalls' = ncalls + 1
    /\ UNCHANGED <<program, cwd, tool, output_dir, fs0, scan_in, scan_out>>

\* mkdir_p(path)
CallMkdirP ==
    /\ pc = "api" /\ ncalls < MaxCalls
    /\ \E path \in ApiPaths :
       \E st \in {mkdir_p(path, State)} :
           /\ Commit(st)
           /\ last' = [Idle("mkdir_p") EXCEPT
                          !.arg = <<path>>,
                          !.again = (last.op = "mkdir_p" /\ last.arg = <<path>> /\ err = "none")]
    /\ ncalls' = ncalls + 1
    /\ UNCHANGED <<program, cwd, tool, output_dir, fs0, scan_in, scan_out>>

\* capture_service_dump(service, subcommand, format, extension, output_dir)
CallCapture ==
    /\ pc = "api" /\ ncalls < MaxCalls
    /\ \E k \in 1..Len(settings_formats) :
       \E outcome \in Outcomes(<<s_aws, n_alpha, n_list_items, s_output, settings_formats[k][1]>>) :
       \E st \in {capture_service_dump(n_alpha, n_list_items, settings_formats[k][1],
                                       settings_formats[k][2], output_dir, State, outcome)} :
           /\ WithinFaults(st)
           /\ Commit(st)
           /\ last' = Did("capture",
                          <<n_alpha, n_list_items, settings_formats[k][1],
                            settings_formats[k][2], output_dir>>,
                          <<<<s_aws, n_alpha, n_list_items, s_output, settings_formats[k][1]>>,
                            NoKw>>,
                          st, outcome)
    /\ ncalls' = ncalls + 1
    /\ UNCHANGED <<program, cwd, tool, output_dir, fs0, scan_in, scan_out>>

NextAPI ==
    \/ CallRun
    \/ CallMkdirP
    \/ CallCapture

SpecAPI == InitAPI /\ [][NextAPI]_vars

-----------------------------------------------------------------------------
(* list_service_commands enumerated by a caller that catches what it raises *)

ListServices == {n_alpha, s_blank, <<>>}

InitList ==
    /\ InitCommon
    /\ tool = "any"
    /\ pc = "list"

\* list_service_commands(service_name): the first next() of the generator, up to
\* the second loop
CallListServiceCommands ==
    /\ pc = "list" /\ ncalls < MaxCalls
    /\ \E service \in ListServices :
       \E outcome \in Outcomes(split(help_cmd(service), " ")) :
       \E st \in {list_service_commands_begin(service, State, outcome)} :
           /\ WithinFaults(st)
           /\ Commit(st)
           /\ last' = Did("list_service_commands", <<service>>,
                          <<split(help_cmd(service), " "), NoKw>>, st, outcome)
           /\ IF st.err # "none"
              THEN pc' = "list" /\ UNCHANGED <<svcs, si, subs, ci>>
              ELSE /\ pc' = "listing"
                   /\ svcs' = <<service>> /\ si' = 1 /\ subs' = st.ret /\ ci' = 1
    /\ ncalls' = ncalls + 1
    /\ UNCHANGED <<fi, yielded, captured, cwd, tool, output_dir, fs0, scan_in, scan_out>>

\* list_service_commands: the next candidate of the second loop; a list-/describe-
\* one for which valid_service_command is true is yielded
ListNextCandidate ==
    /\ pc = "listing" /\ ci <= Len(subs)
    /\ \E outcome \in Outcomes(split(help_cmd(svcs[si] \o <<" ">> \o subs[ci]), " ")) :
         \E st \in {IF is_dump_subcommand(subs[ci])
                    THEN valid_service_command(svcs[si] \o <<" ">> \o subs[ci], State, outcome)
                    ELSE [State EXCEPT !.ret = FALSE]} :
             /\ WithinFaults(st)
             /\ Commit(st)
             /\ last' = Did("sub", <<svcs[si], subs[ci]>>,
                            <<split(help_cmd(svcs[si] \o <<" ">> \o subs[ci]), " "), NoKw>>,
                            st, outcome)
             /\ yielded' = IF st.ret THEN Append(yielded, <<svcs[si], subs[ci]>>) ELSE yielded
    /\ ci' = ci + 1
    /\ UNCHANGED <<pc, svcs, si, subs, fi, captured, driver>>

\* list_service_commands: the generator is exhausted
ListExhausted ==
    /\ pc = "listing" /\ ci > Len(subs)
    /\ pc' = "list"
    /\ last' = Idle("exhausted")
    /\ UNCHANGED <<run_cache, shd_cache, vsc_cache, mkdir_cache, mkdir_p_cache, fs,
                   err, spawns, faults, svcs, si, subs, ci, fi, yielded, captured, driver>>

NextList ==
    \/ CallListServiceCommands
    \/ ListNextCandidate
    \/ ListExhausted

SpecList == InitList /\ [][NextList]_vars

-----------------------------------------------------------------------------
(* The scan applied to every short sequence of sanitized lines *)

l_title == <<"A", " ">> \o s_SERVICES
l_marked_bullet == bullet(s_COMMANDS)
l_ab == bullet(<<"a","b">>)
l_cd == bullet(<<"c","d">>)
l_short == bullet(<<"a">>)
l_plain == <<"x">>
ScanLines == {l_title, l_marked_bullet, l_ab, l_cd, l_short, l_plain}

RECURSIVE SeqsUpTo(_, _)
SeqsUpTo(S, n) ==
    IF n = 0 THEN {<<>>}
    ELSE SeqsUpTo(S, n - 1) \cup
         {Append(q, x) : q \in {r \in SeqsUpTo(S, n - 1) : Len(r) = n - 1}, x \in S}

InitScan ==
    /\ run_cache = NoFiles /\ shd_cache = NoFiles /\ vsc_cache = NoFiles
    /\ mkdir_cache = {} /\ mkdir_p_cache = {}
    /\ cwd = <<>> /\ tool = "any" /\ output_dir = d_dumptruck
    /\ fs = [dirs |-> {<<>>}, files |-> NoFiles] /\ fs0 = fs
    /\ err = "none" /\ spawns = NoFiles /\ faults = 0
    /\ svcs = <<>> /\ si = 0 /\ subs = <<>> /\ ci = 0 /\ fi = 0
    /\ yielded = <<>> /\ captured = <<>> /\ last = Idle("init") /\ ncalls = 0
    /\ pc = "scan"
    /\ scan_in \in [lines : SeqsUpTo(ScanLines, MaxLines), marker : {s_SERVICES, s_COMMANDS}]
    /\ scan_out = <<>>

\* the two loops of list_aws_services / list_service_commands over the lines
ApplyScan ==
    /\ pc = "scan"
    /\ scan_out' = scan(scan_in.lines, scan_in.marker)
    /\ pc' = "scanned"
    /\ last' = Idle("scan")
    /\ UNCHANGED <<run_cache, shd_cache, vsc_cache, mkdir_cache, mkdir_p_cache, fs, fs0,
                   cwd, tool, output_dir, err, spawns, faults, svcs, si, subs, ci, fi,
                   yielded, captured, ncalls, scan_in>>

NextScan == ApplyScan

SpecScan == InitScan /\ [][NextScan]_vars

-----------------------------------------------------------------------------
(* Properties *)

\* C1: a pair is yielded by list_valid_dump_commands only if
\* valid_service_command(service) returned true, the subcommand starts with list- or
\* describe-, and the probe run('aws', service, subcommand) returned exit status 0
\* before the pair was yielded.
C1_YieldedOnlyIfValidated ==
    \A i \in 1..Len(yielded) :
        /\ yielded[i][1] \in DOMAIN vsc_cache
        /\ vsc_cache[yielded[i][1]]
        /\ startswith(yielded[i][2], s_list) \/ startswith(yielded[i][2], s_describe)
        /\ <<<<s_aws, yielded[i][1], yielded[i][2]>>, NoKw>> \in DOMAIN run_cache
        /\ run_cache[<<<<s_aws, yielded[i][1], yielded[i][2]>>, NoKw>>].returncode = 0

\* a second pair has just been yielded by a probe that exited with status 0
C1_Witness ==
    Len(yielded) >= 2 /\ last.op = "probe" /\ last.kind = "zero" /\ pc = "capture"

\* C2: a timeout of an external invocation made during a run of main never terminates
\* the run and never propagates as an error.
C2_TimeoutNeverEndsRun == ~(pc = "crashed" /\ err = "TimeoutExpired")

\* C3: a call of capture_service_dump whose invocation times out creates no file and
\* lets no exception escape; one whose invocation exits with a non-zero status creates
\* no file.
C3_SkipCreatesNoFile ==
    [][(last'.op = "capture" /\ last'.kind \in {"timeout", "nonzero"})
         => (fs'.files = fs.files /\ (last'.kind = "timeout" => err' = "none"))]_vars

\* a capture whose child process timed out has returned
C3_Witness == last.op = "capture" /\ last.kind = "timeout" /\ last.spawned # <<>>

\* the prefix paths of a path string: the path cut after each of its segments
PathPrefixes(path) ==
    {SubSeq(path, 1, k) : k \in {j \in 1..Len(path) :
                                   path[j] # sep /\ (j = Len(path) \/ path[j + 1] = sep)}}

\* C4: a call of capture_service_dump whose invocation exits with status 0 creates or
\* overwrites exactly the file <output_dir>/<format>/<service>/<subcommand>.<extension>,
\* whose content is then the standard output of the invocation.  Stated for the calls
\* where no prefix of the target directory is a regular file.
C4_SuccessWritesArtifact ==
    [][(/\ last'.op = "capture" /\ last'.kind = "zero"
        /\ \A p \in PathPrefixes(artifact_dir(last'.arg[1], last'.arg[3], last'.arg[5])) :
              resolve(p) \notin DOMAIN fs.files)
         => (/\ err' = "none"
             /\ fs'.files =
                  (resolve(artifact_path(last'.arg[1], last'.arg[2], last'.arg[3],
                                         last'.arg[4], last'.arg[5]))
                     :> run_cache'[<<<<s_aws, last'.arg[1], last'.arg[2], s_output,
                                       last'.arg[3]>>, NoKw>>].stdout)
                  @@ fs.files)]_vars

\* the lines of a sequence that hold the marker
C5_Marked(lines, marker) == {i \in 1..Len(lines) : contains(lines[i], marker)}

\* a bullet line: '+o ' and at least two more characters
C5_Bullet(l) == Len(l) >= 5 /\ l[1] = "+" /\ l[2] = "o" /\ l[3] = " "

\* the number of bullet lines that follow line k without a gap
C5_Run(lines, k) ==
    SetMax({n \in 0..(Len(lines) - k) : \A j \in 1..n : C5_Bullet(lines[k + j])})

\* C5: the scan examines no candidate when no line holds the marker; otherwise it
\* examines exactly the bullet lines that follow the first marker line without a gap,
\* their three-character prefix removed, in order: none when the next line is no
\* bullet, never the marker line, never a bullet after the first line that is none.
C5_ScanExaminesFirstRun ==
    pc = "scanned" =>
        IF C5_Marked(scan_in.lines, scan_in.marker) = {}
        THEN scan_out = <<>>
        ELSE scan_out =
               [j \in 1..C5_Run(scan_in.lines, SetMin(C5_Marked(scan_in.lines, scan_in.marker)))
                  |-> SubSeq(scan_in.lines[SetMin(C5_Marked(scan_in.lines, scan_in.marker)) + j],
                             4,
                             Len(scan_in.lines[SetMin(C5_Marked(scan_in.lines, scan_in.marker)) + j]))]

\* a marker line that is itself a bullet, one bullet line, a line that is none, and a
\* bullet line after it: one candidate was examined
C5_Witness ==
    /\ pc = "scanned"
    /\ scan_in.marker = s_COMMANDS
    /\ scan_in.lines = <<l_marked_bullet, l_ab, l_short, l_cd>>
    /\ scan_out = << <<"a", "b">> >>

\* C6: while fewer distinct argument sequences than the cache capacity were passed,
\* calls of run with the same arguments are memoized: each argument sequence is
\* executed at most once per process (the calls counted are those that pass no
\* timeout keyword).
C6_ExecutedAtMostOnce ==
    Cardinality(DOMAIN spawns) < lru_maxsize =>
        \A key \in DOMAIN spawns : key[2] = NoKw => spawns[key] <= 1

\* C7: when mkdir_p(path) has returned, calling mkdir_p(path) again raises nothing and
\* leaves the filesystem as it was.
C7_MkdirPIdempotent ==
    [][(last'.op = "mkdir_p" /\ last'.again) => (err' = "none" /\ fs' = fs)]_vars

\* mkdir_p was called a second time on a path whose first call made directories
C7_Witness ==
    last.op = "mkdir_p" /\ last.again /\ err = "none" /\ fs.dirs # fs0.dirs /\ ncalls = 2

\* C8: mkdir_p(path) fails whenever a prefix path of path exists and is not a
\* directory, and the failed call is not memoized.
C8_FailsOnNonDirectoryPrefix ==
    [][(last'.op = "mkdir_p"
        /\ \E p \in PathPrefixes(last'.arg[1]) : resolve(p) \in DOMAIN fs.files)
         => (err' # "none" /\ last'.arg[1] \notin mkdir_p_cache')]_vars

\* every line that starts with the bullet prefix, in the order of the text
C9_BulletNames(lines) ==
    LET bl == SelectSeq(lines, LAMBDA l : startswith(l, s_bullet))
    IN  [j \in 1..Len(bl) |-> slice_from(bl[j], 3)]

\* the pairs of one service in the order of its help text
C9_PairsOf(service) ==
    IF service \in DOMAIN shd_cache
    THEN [j \in 1..Len(C9_BulletNames(shd_cache[service]))
            |-> <<service, C9_BulletNames(shd_cache[service])[j]>>]
    ELSE <<>>

RECURSIVE C9_DepthFirst(_)
\* the pairs of the services, service after service
C9_DepthFirst(services) ==
    IF services = <<>> THEN <<>>
    ELSE C9_PairsOf(Head(services)) \o C9_DepthFirst(Tail(services))

RECURSIVE C9_IsSubsequence(_, _)
C9_IsSubsequence(a, b) ==
    IF a = <<>> THEN TRUE
    ELSE IF b = <<>> THEN FALSE
    ELSE IF Head(a) = Head(b) THEN C9_IsSubsequence(Tail(a), Tail(b))
    ELSE C9_IsSubsequence(a, Tail(b))

\* C9: the pairs are yielded in help-text order, depth-first: the yielded sequence is
\* a subsequence of the bullet names of the services' help texts laid out service
\* after service, the services in the order of the root help text.
C9_HelpTextOrder ==
    C9_IsSubsequence(
        yielded,
        C9_DepthFirst(
            IF <<<<s_aws, s_help>>, NoKw>> \in DOMAIN run_cache
            THEN C9_BulletNames(sanitize(run_cache[<<<<s_aws, s_help>>, NoKw>>].stdout))
            ELSE <<>>))

\* two subcommands of one service were yielded, then a pair of the next service
C9_Witness ==
    /\ Len(yielded) = 3
    /\ yielded[1][1] = yielded[2][1] /\ yielded[1][2] # yielded[2][2]
    /\ yielded[3][1] # yielded[1][1]

\* C10: with the fake tool (root help lists alpha, alpha help lists list-items, alpha
\* list-items --output json prints [] with status 0, nothing else stubbed to succeed),
\* a run of main with output_dir /tmp/x on an empty tree ends with exactly the file
\* /tmp/x/json/alpha/list-items.json holding [].  Stated for the runs in which the
\* pair was discovered.
C10_EndToEnd ==
    (tool = "fake" /\ pc \in {"done", "crashed"} /\ yielded = << <<n_alpha, n_list_items>> >>)
        => fs.files = (<< <<"t","m","p">>, <<"x">>, s_json, n_alpha,
                          n_list_items \o <<".">> \o s_json >> :> b_json)

\* the string <output_dir>/<format>/<service>/<subcommand>.<extension> of a capture
C11_Path(c) ==
    output_dir \o <<"/">> \o c.format \o <<"/">> \o c.service \o <<"/">>
        \o c.subcommand \o <<".">> \o c.extension

RECURSIVE C11_Expected(_)
\* one capture per pair and format: text->log, table->txt, json->json
C11_Expected(pairs) ==
    IF pairs = <<>> THEN <<>>
    ELSE << <<Head(pairs)[1], Head(pairs)[2], s_text, s_log>>,
            <<Head(pairs)[1], Head(pairs)[2], s_table, s_txt>>,
            <<Head(pairs)[1], Head(pairs)[2], s_json, s_json>> >> \o C11_Expected(Tail(pairs))

\* the files the run created or gave a new content
C11_Written ==
    {p \in DOMAIN fs.files : p \notin DOMAIN fs0.files \/ fs.files[p] # fs0.files[p]}

\* C11: in a run of main that completes, capture_service_dump was called exactly once
\* for each occurrence of a yielded pair and each of the three formats, and the files
\* the run wrote are exactly <output_dir>/<format>/<service>/<subcommand>.<extension>
\* for the yielded pairs and formats whose invocation returned exit status 0.
C11_CapturesAndArtifacts ==
    pc = "done" =>
        /\ [i \in 1..Len(captured) |->
               <<captured[i].service, captured[i].subcommand,
                 captured[i].format, captured[i].extension>>] = C11_Expected(yielded)
        /\ C11_Written =
             {resolve(C11_Path(captured[i])) :
                 i \in {j \in 1..Len(captured) : captured[j].kind = "zero"}}

\* a run that yielded two pairs has completed; one capture wrote a file, one skipped
C11_Witness ==
    /\ pc = "done" /\ Len(yielded) >= 2
    /\ \E i, j \in 1..Len(captured) :
           captured[i].kind = "zero" /\ captured[j].kind \in {"timeout", "nonzero"}
    /\ C11_Written # {}

\* C12: the timeout value is no part of the cache key of run: once run(args) has
\* returned a result under one timeout value, a call with the same args under any
\* timeout value, the default passed explicitly included, spawns no child process and
\* returns the cached result.
C12_TimeoutNotInKey ==
    [][(last'.op = "run" /\ \E k \in ApiKws : <<last'.arg[1], k>> \in DOMAIN run_cache)
         => (/\ last'.spawned = <<>>
             /\ err' = "none"
             /\ \A k \in ApiKws : <<last'.arg[1], k>> \in DOMAIN run_cache
                    => run_cache'[last'.arg] = run_cache[<<last'.arg[1], k>>])]_vars

\* the invocation with these arguments has failed in this run: it was spawned, and it
\* left no result (it timed out) or a result with a non-zero exit status
C13_Failed(args) ==
    /\ <<args, NoKw>> \in DOMAIN spawns
    /\ <<args, NoKw>> \in DOMAIN run_cache => run_cache[<<args, NoKw>>].returncode # 0

\* C13: within one run of main a failed external invocation is never executed again:
\* no step spawns a child process with an argument sequence whose invocation has
\* timed out or returned a non-zero exit status earlier in the run.
C13_FailedNeverRerun ==
    [][\A i \in 1..Len(last'.spawned) : ~C13_Failed(last'.spawned[i])]_vars

\* C14: for the output_dir of the run and the fixed formats, the artifact path is an
\* injective function of (format, service, subcommand) over the pairs
\* list_valid_dump_commands yields: two distinct triples never have the same path.
C14_ArtifactPathInjective ==
    \A i, j \in 1..Len(yielded) : \A f, g \in 1..Len(settings_formats) :
        <<yielded[i], f>> # <<yielded[j], g>> =>
            artifact_path(yielded[i][1], yielded[i][2],
                          settings_formats[f][1], settings_formats[f][2], output_dir)
              # artifact_path(yielded[j][1], yielded[j][2],
                              settings_formats[g][1], settings_formats[g][2], output_dir)

\* the control characters of ASCII that the model's texts use
C15_Control == {"\t", "\n", "\r", "\f", "VT", "BS"}

\* C15: every line shell yields is non-empty and holds only printable characters, no
\* control character anywhere in it (the lines are those service_help_doc collected
\* from shell).
C15_LinesPrintable ==
    \A name \in DOMAIN shd_cache : \A i \in 1..Len(shd_cache[name]) :
        /\ shd_cache[name][i] # <<>>
        /\ \A k \in 1..Len(shd_cache[name][i]) :
               shd_cache[name][i][k] \in string_printable \ C15_Control

\* C16: for every non-empty path, relative or absolute, and every working directory,
\* when mkdir_p(path) returns without failure the directory named by path exists
\* together with all of its prefix directories.
C16_MkdirPMaterializes ==
    [][(last'.op = "mkdir_p" /\ err' = "none" /\ last'.arg[1] # <<>>)
         => \A p \in PathPrefixes(last'.arg[1]) : resolve(p) \in fs'.dirs]_vars

\* C17: a pair yielded by list_service_commands has passed a runnability check: the
\* invocation list_service_commands made for the candidate (the fetch of its help)
\* returned a zero exit status.  The pair is the current candidate when
\* list_valid_dump_commands is about to probe it.
C17_YieldedAfterRunnable ==
    pc = "probe" =>
        /\ <<split(help_cmd(svcs[si] \o <<" ">> \o subs[ci]), " "), NoKw>> \in DOMAIN run_cache
        /\ run_cache[<<split(help_cmd(svcs[si] \o <<" ">> \o subs[ci]), " "), NoKw>>].returncode = 0

\* C18: enumerating list_service_commands(service) for a service name that is empty
\* or blank, or for which valid_service_command(service) is false, fails with an
\* AssertionError that reaches the caller, before any pair is yielded and before a
\* help text is scanned; for an empty or blank name no child process is spawned.
C18_InvalidServiceAsserts ==
    [][(/\ last'.op = "list_service_commands"
        /\ \/ strip(last'.arg[1], {" ", "\t", "\n", "\r", "\f", "VT"}) = <<>>
           \/ last'.arg[1] \in DOMAIN vsc_cache' /\ ~vsc_cache'[last'.arg[1]])
         => (/\ err' = "AssertionError"
             /\ pc' = "list"
             /\ yielded' = yielded /\ subs' = subs /\ shd_cache' = shd_cache
             /\ (last'.arg[1] \notin DOMAIN vsc_cache' => last'.spawned = <<>>))]_vars

\* list_service_commands('alpha') has failed, the help of alpha having timed out
C18_Witness ==
    /\ last.op = "list_service_commands" /\ last.arg = <<n_alpha>>
    /\ n_alpha \in DOMAIN vsc_cache /\ ~vsc_cache[n_alpha]
    /\ err = "AssertionError" /\ last.kind = "timeout"

\* C19: a call of capture_service_dump that skips (its invocation timed out or
\* returned a non-zero exit status) leaves the whole filesystem unchanged: it creates
\* no directory, an artifact already at the target path keeps its content, and the
\* memoization state of mkdir and mkdir_p is unchanged.
C19_SkipLeavesFilesystem ==
    [][(last'.op = "capture" /\ last'.kind \in {"timeout", "nonzero"})
         => (/\ fs' = fs
             /\ mkdir_cache' = mkdir_cache
             /\ mkdir_p_cache' = mkdir_p_cache)]_vars

\* a capture in json has skipped on a non-zero exit status while an artifact of an
\* earlier capture lies at its target path, which still has its content
C19_Witness ==
    /\ last.op = "capture" /\ last.kind = "nonzero" /\ last.arg[3] = s_json
    /\ resolve(artifact_path(last.arg[1], last.arg[2], last.arg[3], last.arg[4], last.arg[5]))
          \in DOMAIN fs.files
    /\ fs.files[resolve(artifact_path(last.arg[1], last.arg[2], last.arg[3], last.arg[4],
                                      last.arg[5]))] = b_old

\* the capture calls made so far, as (service, subcommand, format, extension)
C20_Calls ==
    [i \in 1..Len(captured) |->
       <<captured[i].service, captured[i].subcommand, captured[i].format, captured[i].extension>>]

\* C20: discovery and capture are interleaved lazily: whenever a step makes an
\* external invocation for a candidate (the help fetch of a service or subcommand, or
\* a probe), every pair yielded so far has had its captures in all three formats; and
\* the artifact of every capture that wrote one is on disk in every later state, also
\* after the run was ended by an error.
C20_LazyInterleaving ==
    /\ [][(last'.op \in {"service", "sub", "probe"} /\ last'.spawned # <<>>)
            => C20_Calls = C11_Expected(yielded)]_vars
    /\ [](\A i \in 1..Len(captured) :
            (captured[i].kind = "zero" /\ captured[i].err = "none")
                => resolve(C11_Path(captured[i])) \in C11_Written)

\* the run was ended by the probe of a later candidate, after a pair was yielded and
\* captured in three formats, one of which wrote its artifact
C20_Witness ==
    /\ pc = "crashed" /\ last.op = "probe" /\ Len(yielded) = 1 /\ Len(captured) = 3
    /\ \E i \in 1..Len(captured) :
           /\ captured[i].kind = "zero"
           /\ resolve(C11_Path(captured[i])) \in DOMAIN fs.files

====
